---- MODULE Spec2Model ----
(***************************************************************************)
(* A model of rustico (src/src/rustico/rustico.py): the Ok / Err variant   *)
(* pair, the unwrap family, map / and_then, the four adapter factories and *)
(* the do-notation interpreter.                                            *)
(*                                                                         *)
(* Result objects live in a heap (a sequence); a reference is an index, so *)
(* object identity ("returns self", "the very Result") is reference        *)
(* equality and Python's == on Results is Ok.__eq__ / Err.__eq__.          *)
(***************************************************************************)
EXTENDS Integers, Sequences, FiniteSets, TLC

VARIABLES heap, out, run, gen, readers

vars == <<heap, out, run, gen, readers>>

(***************************************************************************)
(* Bounds                                                                  *)
(***************************************************************************)
MaxObjs == 3
MaxRoots == 1
MaxChain == 3
MaxResumes == 3
MaxReaders == 2

(***************************************************************************)
(* Python values that are held by Results, passed to callbacks, returned   *)
(* by wrapped operations and produced by sequences.                        *)
(***************************************************************************)
IntV(n) == [t |-> "int", n |-> n]
StrV(s) == [t |-> "str", s |-> s]
NoneV == [t |-> "none"]
ExcV(cls, msg, tb, oid) == [t |-> "exc", cls |-> cls, msg |-> msg, tb |-> tb, oid |-> oid]

\* exception instances the caller may hold: one that was raised (it carries
\* a traceback) and one that was only constructed
ExcObjs == {ExcV("ValueError", "boom", TRUE, 1), ExcV("KeyError", "k", FALSE, 2)}

Values == {IntV(1), StrV("fail"), NoneV} \cup ExcObjs

Msgs == {"m", "Custom message"}

\* isinstance(value, BaseException)
IsBaseException(v) == v.t = "exc"

\* repr(value): ints in decimal, strings quoted, exceptions as Class('msg')
Repr(v) ==
  CASE v.t = "int" -> ToString(v.n)
    [] v.t = "str" -> "'" \o v.s \o "'"
    [] v.t = "none" -> "None"
    [] v.t = "exc" -> v.cls \o "('" \o v.msg \o "')"

\* str(value), the conversion an f-string applies without !r
Str(v) ==
  CASE v.t = "int" -> ToString(v.n)
    [] v.t = "str" -> v.s
    [] v.t = "none" -> "None"
    [] v.t = "exc" -> v.msg

\* a in b, for strings
Contains(b, a) ==
  \E i \in 1..(Len(b) - Len(a) + 1) : SubSeq(b, i, i + Len(a) - 1) = a

(***************************************************************************)
(* Result objects                                                          *)
(***************************************************************************)
Ellipsis == [s |-> "sentinel"]
NoTrace == [s |-> "none"]

\* Ok.__init__
Ok__init__(value) == [tag |-> "Ok", value |-> value]

\* Err.__init__: the trace memo starts as the sentinel for exceptions
Err__init__(value) ==
  [tag |-> "Err", value |-> value,
   trace |-> IF IsBaseException(value) THEN Ellipsis ELSE NoTrace]

Refs(h) == 1..Len(h)
Alloc(h, obj) == Append(h, obj)
NewRef(h) == Len(h) + 1

\* Ok.__eq__ / Err.__eq__ on two references
ResultEq(h, a, b) == h[a].tag = h[b].tag /\ h[a].value = h[b].value

(***************************************************************************)
(* Outcomes of a call: what it returned or raised, the heap it left, and   *)
(* the caller-supplied callbacks it invoked, in order.                     *)
(***************************************************************************)
ValRet(v) == [k |-> "val", v |-> v]
ResRet(ref) == [k |-> "res", ref |-> ref]

Returns(h, ret, calls) == [heap |-> h, kind |-> "return", ret |-> ret, calls |-> calls]
Raises(h, exc, calls) == [heap |-> h, kind |-> "raise", exc |-> exc, calls |-> calls]

NoCause == [t |-> "nocause"]

\* UnwrapError.__init__ and the cause set by raise exc from ...
UnwrapError(result, message, cause) ==
  [cls |-> "UnwrapError", result |-> result, message |-> message, cause |-> cause]

(***************************************************************************)
(* Caller-supplied callbacks                                               *)
(***************************************************************************)
CallbackExc == ExcV("RuntimeError", "cb", TRUE, 3)

\* value callbacks: op in map(op)
Fns == {"ident", "const", "raiser"}

Apply(f, v) ==
  CASE f = "ident" -> [kind |-> "return", v |-> v]
    [] f = "const" -> [kind |-> "return", v |-> IntV(1)]
    [] f = "raiser" -> [kind |-> "raise", exc |-> CallbackExc]

\* Result-returning callbacks: op in and_then(op); each constructs its Result
RFns == {"ok_same", "ok_const", "fail", "raiser"}

ApplyR(h, f, v) ==
  CASE f = "ok_same" -> Returns(Alloc(h, Ok__init__(v)), ResRet(NewRef(h)), <<>>)
    [] f = "ok_const" -> Returns(Alloc(h, Ok__init__(IntV(1))), ResRet(NewRef(h)), <<>>)
    [] f = "fail" -> Returns(Alloc(h, Err__init__(StrV("fail"))), ResRet(NewRef(h)), <<>>)
    [] f = "raiser" -> Raises(h, CallbackExc, <<>>)

\* one entry of the invocation log
Call(f, arg) == [fn |-> f, arg |-> arg]

(***************************************************************************)
(* The unwrap family                                                       *)
(***************************************************************************)
\* Ok.unwrap
Ok_unwrap(h, self) == Returns(h, ValRet(h[self].value), <<>>)

\* Ok.expect
Ok_expect(h, self, message) == Returns(h, ValRet(h[self].value), <<>>)

\* the message of Ok.unwrap_err (the back-quotes of the source's literals are
\* left out of the model's strings)
UnwrapErrMessage == "Called Result.unwrap_err() on an Ok value"

\* Ok.unwrap_err
Ok_unwrap_err(h, self) ==
  Raises(h, UnwrapError(self, UnwrapErrMessage, NoCause), <<>>)

\* Ok.expect_err returning the payload as Err.expect_err does
Ok_expect_err_mut(h, self, message) == Returns(h, ValRet(h[self].value), <<>>)

\* Ok.expect_err
Ok_expect_err(h, self, message) ==
  Raises(h, UnwrapError(self, message, NoCause), <<>>)

\* the f-string of Err.expect without the !r conversion
ExpectMessage_mut(message, value) == message \o ": " \o Str(value)

\* the f-string of Err.expect
ExpectMessage(message, value) == message \o ": " \o Repr(value)

\* the f-string of Err.unwrap
UnwrapMessage(value) == "Called Result.unwrap() on an Err value: " \o Repr(value)

\* raise exc alone, whatever the payload
CauseOf_mut(value) == NoCause

\* raise exc from self._value when the payload is an exception, else raise exc
CauseOf(value) == IF IsBaseException(value) THEN value ELSE NoCause

\* Err.expect
Err_expect(h, self, message) ==
  Raises(h, UnwrapError(self, ExpectMessage(message, h[self].value), CauseOf(h[self].value)), <<>>)

\* Err.unwrap
Err_unwrap(h, self) ==
  Raises(h, UnwrapError(self, UnwrapMessage(h[self].value), CauseOf(h[self].value)), <<>>)

\* Err.unwrap_err
Err_unwrap_err(h, self) == Returns(h, ValRet(h[self].value), <<>>)

\* Err.expect_err
Err_expect_err(h, self, message) == Returns(h, ValRet(h[self].value), <<>>)

(***************************************************************************)
(* map and and_then                                                        *)
(***************************************************************************)
\* Ok.map storing the result in the receiver
Ok_map_mut(h, self, op) ==
  LET r == Apply(op, h[self].value)
      log == <<Call(op, h[self].value)>>
  IN IF r.kind = "raise" THEN Raises(h, r.exc, log)
     ELSE Returns([h EXCEPT ![self].value = r.v], ResRet(self), log)

\* Ok.map
Ok_map(h, self, op) ==
  LET r == Apply(op, h[self].value)
      log == <<Call(op, h[self].value)>>
  IN IF r.kind = "raise" THEN Raises(h, r.exc, log)
     ELSE Returns(Alloc(h, Ok__init__(r.v)), ResRet(NewRef(h)), log)

\* Err.map applying op to the error value
Err_map_mut(h, self, op) == Returns(h, ResRet(self), <<Call(op, h[self].value)>>)

\* Err.map
Err_map(h, self, op) == Returns(h, ResRet(self), <<>>)

\* Ok.and_then
Ok_and_then(h, self, op) ==
  LET r == ApplyR(h, op, h[self].value)
      log == <<Call(op, h[self].value)>>
  IN IF r.kind = "raise" THEN Raises(h, r.exc, log)
     ELSE Returns(r.heap, r.ret, log)

\* Err.and_then calling op as Err.or_else does
Err_and_then_mut(h, self, op) == Ok_and_then(h, self, op)

\* Err.and_then
Err_and_then(h, self, op) == Returns(h, ResRet(self), <<>>)

(***************************************************************************)
(* Method dispatch on the receiver's class                                 *)
(***************************************************************************)
Result_unwrap(h, self) ==
  IF h[self].tag = "Ok" THEN Ok_unwrap(h, self) ELSE Err_unwrap(h, self)

Result_expect(h, self, message) ==
  IF h[self].tag = "Ok" THEN Ok_expect(h, self, message) ELSE Err_expect(h, self, message)

Result_unwrap_err(h, self) ==
  IF h[self].tag = "Ok" THEN Ok_unwrap_err(h, self) ELSE Err_unwrap_err(h, self)

Result_expect_err(h, self, message) ==
  IF h[self].tag = "Ok" THEN Ok_expect_err(h, self, message) ELSE Err_expect_err(h, self, message)

Result_map(h, self, op) ==
  IF h[self].tag = "Ok" THEN Ok_map(h, self, op) ELSE Err_map(h, self, op)

Result_and_then(h, self, op) ==
  IF h[self].tag = "Ok" THEN Ok_and_then(h, self, op) ELSE Err_and_then(h, self, op)

(***************************************************************************)
(* State                                                                   *)
(***************************************************************************)
NoOut == [op |-> "none"]
Idle == [pc |-> "idle"]
NoGen == [state |-> "none"]

\* the record of the call just made: the operation, its receiver and
\* arguments, and its outcome
Done(op, self, arg, r) ==
  [op |-> op, self |-> self, arg |-> arg, kind |-> r.kind,
   res |-> IF r.kind = "return" THEN r.ret ELSE r.exc, calls |-> r.calls,
   rets |-> <<>>]

\* the threads that read the trace of an Err, and where each stands in
\* the body of the property: no thread is reading at first
Threads == 1..MaxReaders
Unset == [s |-> "unset"]
IdleReader == [pc |-> "idle", self |-> 0, local |-> Unset, ret |-> Unset]
NoReaders == [t \in Threads |-> IdleReader]

Init ==
  /\ heap = <<>>
  /\ out = NoOut
  /\ run = Idle
  /\ gen = NoGen
  /\ readers = NoReaders

(***************************************************************************)
(* Calls on Results                                                        *)
(***************************************************************************)
Finish(op, self, arg, r) ==
  /\ Len(r.heap) <= MaxObjs
  /\ heap' = r.heap
  /\ out' = Done(op, self, arg, r)
  /\ UNCHANGED <<run, gen, readers>>

\* Ok(value)
NewOk ==
  \E v \in Values :
    /\ Len(heap) < MaxRoots
    /\ Finish("Ok", 0, v, Returns(Alloc(heap, Ok__init__(v)), ResRet(NewRef(heap)), <<>>))

\* Err(value)
NewErr ==
  \E v \in Values :
    /\ Len(heap) < MaxRoots
    /\ Finish("Err", 0, v, Returns(Alloc(heap, Err__init__(v)), ResRet(NewRef(heap)), <<>>))

CallUnwrap ==
  \E self \in Refs(heap) : Finish("unwrap", self, NoneV, Result_unwrap(heap, self))

CallExpect ==
  \E self \in Refs(heap), m \in Msgs :
    Finish("expect", self, m, Result_expect(heap, self, m))

CallUnwrapErr ==
  \E self \in Refs(heap) : Finish("unwrap_err", self, NoneV, Result_unwrap_err(heap, self))

CallExpectErr ==
  \E self \in Refs(heap), m \in Msgs :
    Finish("expect_err", self, m, Result_expect_err(heap, self, m))

CallMap ==
  \E self \in Refs(heap), f \in Fns :
    Finish("map", self, f, Result_map(heap, self, f))

\* r.and_then(f): the first call of a chain; arg is the sequence of the
\* chain's callbacks and rets the Results its calls returned, in order
CallAndThen ==
  \E self \in Refs(heap), f \in RFns :
    LET r == Result_and_then(heap, self, f)
    IN /\ Len(r.heap) <= MaxObjs
       /\ heap' = r.heap
       /\ out' = [Done("and_then", self, <<f>>, r) EXCEPT
                    !.rets = IF r.kind = "return" THEN <<r.ret.ref>> ELSE <<>>]
       /\ UNCHANGED <<run, gen, readers>>

\* r.and_then(f1)...and_then(f): the next call of the chain, made on the
\* Result the previous call returned
ChainAndThen ==
  \E f \in RFns :
    /\ out.op = "and_then"
    /\ out.kind = "return"
    /\ Len(out.arg) < MaxChain
    /\ LET r == Result_and_then(heap, out.res.ref, f)
       IN /\ Len(r.heap) <= MaxObjs
          /\ heap' = r.heap
          /\ out' = [Done("and_then", out.self, Append(out.arg, f), r) EXCEPT
                       !.calls = out.calls \o r.calls,
                       !.rets = IF r.kind = "return" THEN Append(out.rets, r.ret.ref)
                                ELSE out.rets]
          /\ UNCHANGED <<run, gen, readers>>

NextResult ==
  \/ NewOk
  \/ NewErr
  \/ CallUnwrap
  \/ CallExpect
  \/ CallUnwrapErr
  \/ CallExpectErr
  \/ CallMap
  \/ CallAndThen
  \/ ChainAndThen

SpecResult == Init /\ [][NextResult]_vars

(***************************************************************************)
(* Equality, hashing, the trace property, match and attribute lookup       *)
(***************************************************************************)
MaxOperands == 2

BoolV(b) == [t |-> "bool", b |-> b]

\* a raised exception whose raising statement names neither its class nor
\* its message (raise x, reached through a call)
Rethrown == ExcV("KeyError", "gone", TRUE, 6)

\* the values the Results compared, hashed and matched are built from
Payloads == Values \cup {Rethrown}

\* one entry of a traceback: file, line, function and the text of the line
Frame(file, line, name, text) == [file |-> file, line |-> line, name |-> name, text |-> text]

\* traceback.extract_tb(exc.__traceback__): the frames the exception passed
\* through, outermost first
extract_tb(exc) ==
  IF exc = Rethrown
  THEN <<Frame("app.py", 11, "<module>", "thrower(mk())"),
         Frame("app.py", 9, "thrower", "raise x")>>
  ELSE <<Frame("app.py", 5, "f", "raise " \o exc.cls \o "('" \o exc.msg \o "')")>>

\* one string of traceback.format_list
FormatFrame(fr) ==
  "  File \"" \o fr.file \o "\", line " \o ToString(fr.line) \o ", in " \o fr.name
    \o "\n    " \o fr.text \o "\n"

\* traceback.format_list(stack_summary)
format_list(frames) == [i \in 1..Len(frames) |-> FormatFrame(frames[i])]

\* a computed trace: the list of formatted strings
TraceList(lines) == [s |-> "list", lines |-> lines]

\* _capture_traceback returning no trace for every payload
Err_capture_traceback_mut(exc) == NoTrace

\* Err._capture_traceback
Err_capture_traceback(exc) ==
  IF IsBaseException(exc) /\ exc.tb
  THEN TraceList(format_list(extract_tb(exc)))
  ELSE NoTrace

TraceRet(t) == [k |-> "trace", t |-> t]

\* Err.trace computing the traceback on every read of an exception's trace
Err_trace_mut(h, self) ==
  IF IsBaseException(h[self].value)
  THEN LET h2 == [h EXCEPT ![self].trace = Err_capture_traceback(h[self].value)]
       IN Returns(h2, TraceRet(h2[self].trace), <<Call("_capture_traceback", h[self].value)>>)
  ELSE Returns(h, TraceRet(h[self].trace), <<>>)

\* Err.trace: the memo is filled on the first read of an exception's trace;
\* the call of _capture_traceback it makes is logged
Err_trace(h, self) ==
  IF IsBaseException(h[self].value) /\ h[self].trace = Ellipsis
  THEN LET h2 == [h EXCEPT ![self].trace = Err_capture_traceback(h[self].value)]
       IN Returns(h2, TraceRet(h2[self].trace), <<Call("_capture_traceback", h[self].value)>>)
  ELSE Returns(h, TraceRet(h[self].trace), <<>>)

\* value == other for the payloads of the model: exceptions compare by
\* identity, everything else by content
ValueEq(a, b) == IF a.t = "exc" /\ b.t = "exc" THEN a.oid = b.oid ELSE a = b

\* what a Result is compared with: another Result or a raw value
IsResult(other) == other.k = "res"

\* Ok.__eq__ without the isinstance test
Ok__eq___mut(h, self, other) ==
  IsResult(other) /\ ValueEq(h[self].value, h[other.ref].value)

\* Ok.__eq__
Ok__eq__(h, self, other) ==
  /\ IsResult(other)
  /\ h[other.ref].tag = "Ok"
  /\ ValueEq(h[self].value, h[other.ref].value)

\* Err.__eq__
Err__eq__(h, self, other) ==
  /\ IsResult(other)
  /\ h[other.ref].tag = "Err"
  /\ ValueEq(h[self].value, h[other.ref].value)

\* Ok.__ne__
Ok__ne__(h, self, other) == ~Ok__eq__(h, self, other)

\* Err.__ne__
Err__ne__(h, self, other) == ~Err__eq__(h, self, other)

\* hash(value): small ints hash to themselves, True to 1 and False to 0,
\* other objects to a number of their own
HashValue(v) ==
  CASE v.t = "int" -> v.n
    [] v.t = "bool" -> IF v.b THEN 1 ELSE 0
    [] v.t = "none" -> 7
    [] v.t = "str" -> 11 + Len(v.s)
    [] v.t = "exc" -> 100 + v.oid

HashWidth == 16

\* hash of a 2-tuple: a mix of the hashes of its elements, in order
TupleHash(key) == (HashValue(key[1]) * 31 + HashValue(key[2]) + 17) % (2 ^ HashWidth)

\* the tuples Ok.__hash__ and Err.__hash__ hash
Ok_hash_key(value) == <<BoolV(TRUE), value>>
Err_hash_key(value) == <<BoolV(FALSE), value>>

\* Ok.__hash__
Ok__hash__(h, self) == TupleHash(Ok_hash_key(h[self].value))

\* Err.__hash__
Err__hash__(h, self) == TupleHash(Err_hash_key(h[self].value))

Result__eq__(h, self, other) ==
  IF h[self].tag = "Ok" THEN Ok__eq__(h, self, other) ELSE Err__eq__(h, self, other)

Result__ne__(h, self, other) ==
  IF h[self].tag = "Ok" THEN Ok__ne__(h, self, other) ELSE Err__ne__(h, self, other)

Result__hash__(h, self) ==
  IF h[self].tag = "Ok" THEN Ok__hash__(h, self) ELSE Err__hash__(h, self)

\* the attributes class Ok and class Err define
OkAttrs ==
  {"is_ok", "is_err", "ok", "err", "ok_value", "value_or", "alt", "expect",
   "expect_err", "unwrap", "unwrap_err", "unwrap_or", "unwrap_or_else",
   "unwrap_or_raise", "map", "map_async", "map_or", "map_or_else", "map_err",
   "and_then", "and_then_async", "or_else", "inspect", "inspect_err", "match"}

ErrAttrs ==
  {"trace", "is_ok", "is_err", "ok", "err", "err_value", "value_or", "alt",
   "expect", "expect_err", "unwrap", "unwrap_err", "unwrap_or", "unwrap_or_else",
   "unwrap_or_raise", "map", "map_async", "map_or", "map_or_else", "map_err",
   "and_then", "and_then_async", "or_else", "inspect", "inspect_err", "match"}

Attrs(tag) == IF tag = "Ok" THEN OkAttrs ELSE ErrAttrs

\* AttributeError("'Ok' object has no attribute 'swap'")
NoAttribute(tag, name) ==
  [cls |-> "AttributeError",
   message |-> "'" \o tag \o "' object has no attribute '" \o name \o "'"]

BoundMethod(self, name) == [k |-> "method", self |-> self, name |-> name]

\* result.name: the lookup of an attribute on an instance of Ok or Err
Result_getattr(h, self, name) ==
  IF name \in Attrs(h[self].tag)
  THEN Returns(h, BoundMethod(self, name), <<>>)
  ELSE Raises(h, NoAttribute(h[self].tag, name), <<>>)

\* Ok.is_ok / Err.is_ok
Ok_is_ok(h, self) == TRUE
Err_is_ok(h, self) == FALSE
Result_is_ok(h, self) == IF h[self].tag = "Ok" THEN Ok_is_ok(h, self) ELSE Err_is_ok(h, self)

\* the handlers a caller passes to match; NoHandler is None
NoHandler == "None"
Handlers == Fns \cup {NoHandler}

\* one entry of the invocation log of match: which handler ran, on what
HandlerCall(role, f, arg) == [role |-> role, fn |-> f, arg |-> arg]

MatchValueError(message) == [cls |-> "ValueError", message |-> message]

\* a handler called on the payload
RunHandler(h, role, f, v) ==
  LET r == Apply(f, v)
      log == <<HandlerCall(role, f, v)>>
  IN IF r.kind = "raise" THEN Raises(h, r.exc, log) ELSE Returns(h, ValRet(r.v), log)

\* Ok.match falling back to the err handler when ok is missing
Ok_match_mut(h, self, ok, err) ==
  IF ok = NoHandler
  THEN IF err = NoHandler
       THEN Raises(h, MatchValueError("Ok.match requires an 'ok' handler"), <<>>)
       ELSE RunHandler(h, "err", err, h[self].value)
  ELSE RunHandler(h, "ok", ok, h[self].value)

\* Ok.match
Ok_match(h, self, ok, err) ==
  IF ok = NoHandler
  THEN Raises(h, MatchValueError("Ok.match requires an 'ok' handler"), <<>>)
  ELSE RunHandler(h, "ok", ok, h[self].value)

\* Err.match
Err_match(h, self, ok, err) ==
  IF err = NoHandler
  THEN Raises(h, MatchValueError("Err.match requires an 'err' handler"), <<>>)
  ELSE RunHandler(h, "err", err, h[self].value)

Result_match(h, self, ok, err) ==
  IF h[self].tag = "Ok" THEN Ok_match(h, self, ok, err) ELSE Err_match(h, self, ok, err)

\* match(result, ok_handler, err_handler=None)
match(h, result, ok_handler, err_handler) ==
  IF Result_is_ok(h, result)
  THEN RunHandler(h, "ok", ok_handler, Result_unwrap(h, result).ret.v)
  ELSE IF err_handler # NoHandler
  THEN RunHandler(h, "err", err_handler, Result_unwrap_err(h, result).ret.v)
  ELSE Returns(h, ValRet(NoneV), <<>>)

\* Ok(value) or Err(value), constructed as an operand
Construct ==
  \E tag \in {"Ok", "Err"}, v \in Payloads :
    /\ Len(heap) < MaxOperands
    /\ Finish("construct", 0, v,
              Returns(Alloc(heap, IF tag = "Ok" THEN Ok__init__(v) ELSE Err__init__(v)),
                      ResRet(NewRef(heap)), <<>>))

\* the operands of ==: the Results made so far and raw values
Others == {ResRet(ref) : ref \in Refs(heap)} \cup {ValRet(v) : v \in Payloads}

\* self == other
CallEq ==
  \E self \in Refs(heap), other \in Others :
    Finish("eq", self, other,
           Returns(heap, ValRet(BoolV(Result__eq__(heap, self, other))), <<>>))

\* self != other
CallNe ==
  \E self \in Refs(heap), other \in Others :
    Finish("ne", self, other,
           Returns(heap, ValRet(BoolV(Result__ne__(heap, self, other))), <<>>))

\* hash(self)
CallHash ==
  \E self \in Refs(heap) :
    Finish("hash", self, NoneV, Returns(heap, ValRet(IntV(Result__hash__(heap, self))), <<>>))

\* self.trace, read on an Err
CallTrace ==
  \E self \in Refs(heap) :
    /\ heap[self].tag = "Err"
    /\ Finish("trace", self, NoneV, Err_trace(heap, self))

\* self.swap(): the attribute is looked up, then called
CallSwap ==
  \E self \in Refs(heap) :
    Finish("swap", self, NoneV, Result_getattr(heap, self, "swap"))

\* self.match(ok=..., err=...)
CallMatch ==
  \E self \in Refs(heap), ok \in Handlers, err \in Handlers :
    Finish("match", self, <<ok, err>>, Result_match(heap, self, ok, err))

\* match(result, ok_handler, err_handler)
CallMatchFn ==
  \E self \in Refs(heap), ok \in Fns, err \in Handlers :
    Finish("match_fn", self, <<ok, err>>, match(heap, self, ok, err))

NextValue ==
  \/ Construct
  \/ CallEq
  \/ CallNe
  \/ CallHash
  \/ CallTrace
  \/ CallSwap

SpecValue == Init /\ [][NextValue]_vars

(***************************************************************************)
(* The remaining methods of Ok and Err, and the free functions on Results  *)
(***************************************************************************)
\* Ok.is_err / Err.is_err
Ok_is_err(h, self) == FALSE
Err_is_err(h, self) == TRUE
Result_is_err(h, self) == IF h[self].tag = "Ok" THEN Ok_is_err(h, self) ELSE Err_is_err(h, self)

\* is_ok(result) / is_err(result)
is_ok(h, result) == Result_is_ok(h, result)
is_err(h, result) == Result_is_err(h, result)

\* Ok.ok / Err.ok
Ok_ok(h, self) == Returns(h, ValRet(h[self].value), <<>>)
Err_ok(h, self) == Returns(h, ValRet(NoneV), <<>>)

\* Ok.err / Err.err
Ok_err(h, self) == Returns(h, ValRet(NoneV), <<>>)
Err_err(h, self) == Returns(h, ValRet(h[self].value), <<>>)

\* the properties Ok.ok_value and Err.err_value
Ok_ok_value(h, self) == Returns(h, ValRet(h[self].value), <<>>)
Err_err_value(h, self) == Returns(h, ValRet(h[self].value), <<>>)

\* the defaults a caller passes
Defaults == {IntV(0), NoneV}

\* Ok.value_or / Err.value_or
Ok_value_or(h, self, default) == Returns(h, ValRet(h[self].value), <<>>)
Err_value_or(h, self, default) == Returns(h, ValRet(default), <<>>)

\* Ok.unwrap_or / Err.unwrap_or
Ok_unwrap_or(h, self, default) == Returns(h, ValRet(h[self].value), <<>>)
Err_unwrap_or(h, self, default) == Returns(h, ValRet(default), <<>>)

\* op(self._value) whose exception is wrapped in a RuntimeError
ReturnApplied_mut(h, op, v) ==
  LET r == Apply(op, v)
  IN IF r.kind = "raise" THEN Raises(h, ExcV("RuntimeError", "wrapped", TRUE, 9), <<Call(op, v)>>)
     ELSE Returns(h, ValRet(r.v), <<Call(op, v)>>)

\* op(self._value) whose value is what the method returns
ReturnApplied(h, op, v) ==
  LET r == Apply(op, v)
  IN IF r.kind = "raise" THEN Raises(h, r.exc, <<Call(op, v)>>)
     ELSE Returns(h, ValRet(r.v), <<Call(op, v)>>)

\* Ok.unwrap_or_else / Err.unwrap_or_else
Ok_unwrap_or_else(h, self, op) == Returns(h, ValRet(h[self].value), <<>>)
Err_unwrap_or_else(h, self, op) == ReturnApplied(h, op, h[self].value)

\* the exception classes a caller passes to unwrap_or_raise
ExcClasses == {"ValueError", "KeyError"}

\* e(self._value): a new exception of the caller's class built on the payload
NewExc(cls, value) == [t |-> "exc", cls |-> cls, args |-> <<value>>]

\* Ok.unwrap_or_raise / Err.unwrap_or_raise
Ok_unwrap_or_raise(h, self, e) == Returns(h, ValRet(h[self].value), <<>>)
Err_unwrap_or_raise(h, self, e) == Raises(h, NewExc(e, h[self].value), <<>>)

\* Ok.map_or / Err.map_or
Ok_map_or(h, self, default, op) == ReturnApplied(h, op, h[self].value)
Err_map_or(h, self, default, op) == Returns(h, ValRet(default), <<>>)

\* callbacks taking no argument: default_op in map_or_else
ZeroFns == {"const", "raiser"}
NoArgs == [t |-> "noargs"]

\* Ok.map_or_else / Err.map_or_else
Ok_map_or_else(h, self, default_op, op) == ReturnApplied(h, op, h[self].value)
Err_map_or_else(h, self, default_op, op) ==
  LET r == Apply(default_op, NoArgs)
  IN IF r.kind = "raise" THEN Raises(h, r.exc, <<Call(default_op, NoArgs)>>)
     ELSE Returns(h, ValRet(r.v), <<Call(default_op, NoArgs)>>)

\* Err(op(self._value))
ErrOfApplied(h, op, v) ==
  LET r == Apply(op, v)
  IN IF r.kind = "raise" THEN Raises(h, r.exc, <<Call(op, v)>>)
     ELSE Returns(Alloc(h, Err__init__(r.v)), ResRet(NewRef(h)), <<Call(op, v)>>)

\* Ok.map_err / Err.map_err
Ok_map_err(h, self, op) == Returns(h, ResRet(self), <<>>)
Err_map_err(h, self, op) == ErrOfApplied(h, op, h[self].value)

\* Ok.alt / Err.alt
Ok_alt(h, self, op) == Returns(h, ResRet(self), <<>>)
Err_alt(h, self, op) == ErrOfApplied(h, op, h[self].value)

\* Ok.or_else / Err.or_else
\* Ok.or_else invoking op as Err.or_else does
Ok_or_else_mut(h, self, op) ==
  LET r == ApplyR(h, op, h[self].value)
      log == <<Call(op, h[self].value)>>
  IN IF r.kind = "raise" THEN Raises(h, r.exc, log) ELSE Returns(r.heap, r.ret, log)
Ok_or_else(h, self, op) == Returns(h, ResRet(self), <<>>)
Err_or_else(h, self, op) ==
  LET r == ApplyR(h, op, h[self].value)
      log == <<Call(op, h[self].value)>>
  IN IF r.kind = "raise" THEN Raises(h, r.exc, log) ELSE Returns(r.heap, r.ret, log)

\* op(self._value), then return a new Ok of its result
InspectWith_mut(h, self, op) ==
  LET r == Apply(op, h[self].value)
      log == <<Call(op, h[self].value)>>
  IN IF r.kind = "raise" THEN Raises(h, r.exc, log)
     ELSE Returns(Alloc(h, Ok__init__(r.v)), ResRet(NewRef(h)), log)

\* op(self._value) for its effect, then return self
InspectWith(h, self, op) ==
  LET r == Apply(op, h[self].value)
      log == <<Call(op, h[self].value)>>
  IN IF r.kind = "raise" THEN Raises(h, r.exc, log) ELSE Returns(h, ResRet(self), log)

\* Ok.inspect / Err.inspect
Ok_inspect(h, self, op) == InspectWith(h, self, op)
Err_inspect(h, self, op) == Returns(h, ResRet(self), <<>>)

\* Ok.inspect_err / Err.inspect_err
Ok_inspect_err(h, self, op) == Returns(h, ResRet(self), <<>>)
Err_inspect_err(h, self, op) == InspectWith(h, self, op)

\* Ok.map_async / Err.map_async, awaited: op is called and its awaitable
\* awaited inside the method
Ok_map_async(h, self, op) ==
  LET r == Apply(op, h[self].value)
      log == <<Call(op, h[self].value)>>
  IN IF r.kind = "raise" THEN Raises(h, r.exc, log)
     ELSE Returns(Alloc(h, Ok__init__(r.v)), ResRet(NewRef(h)), log)
Err_map_async(h, self, op) == Returns(h, ResRet(self), <<>>)

\* Ok.and_then_async / Err.and_then_async, awaited
Ok_and_then_async(h, self, op) ==
  LET r == ApplyR(h, op, h[self].value)
      log == <<Call(op, h[self].value)>>
  IN IF r.kind = "raise" THEN Raises(h, r.exc, log) ELSE Returns(r.heap, r.ret, log)
Err_and_then_async(h, self, op) == Returns(h, ResRet(self), <<>>)

\* the method of the receiver's class
ByClass(h, self, ok_result, err_result) ==
  IF h[self].tag = "Ok" THEN ok_result ELSE err_result

\* a Result the call constructed and handed to its caller, who alone holds it
NewRet(obj) == [k |-> "new", obj |-> obj]

\* the outcome as the caller sees it: a Result made during the call is the
\* caller's temporary, every other returned Result is one that existed
Handed(h, r) ==
  IF r.kind = "return" /\ r.ret.k = "res" /\ r.ret.ref > Len(h)
  THEN [r EXCEPT !.ret = NewRet(r.heap[r.ret.ref]), !.heap = SubSeq(r.heap, 1, Len(h))]
  ELSE r

\* self.is_ok(), self.is_err(), is_ok(self), is_err(self)
CallIsOk ==
  \E self \in Refs(heap), form \in {"is_ok", "is_err", "is_ok_fn", "is_err_fn"} :
    Finish(form, self, NoneV,
           Returns(heap,
                   ValRet(BoolV(CASE form = "is_ok" -> Result_is_ok(heap, self)
                                  [] form = "is_err" -> Result_is_err(heap, self)
                                  [] form = "is_ok_fn" -> is_ok(heap, self)
                                  [] form = "is_err_fn" -> is_err(heap, self))),
                   <<>>))

\* self.ok(), self.err()
CallOkErr ==
  \E self \in Refs(heap) :
    \/ Finish("ok", self, NoneV, Handed(heap, ByClass(heap, self, Ok_ok(heap, self), Err_ok(heap, self))))
    \/ Finish("err", self, NoneV, Handed(heap, ByClass(heap, self, Ok_err(heap, self), Err_err(heap, self))))

\* self.ok_value on an Ok, self.err_value on an Err
CallValueProperty ==
  \E self \in Refs(heap) :
    IF heap[self].tag = "Ok"
    THEN Finish("ok_value", self, NoneV, Ok_ok_value(heap, self))
    ELSE Finish("err_value", self, NoneV, Err_err_value(heap, self))

\* self.value_or(default), self.unwrap_or(default)
CallUnwrapOr ==
  \E self \in Refs(heap), d \in Defaults :
    \/ Finish("value_or", self, d,
              Handed(heap, ByClass(heap, self, Ok_value_or(heap, self, d), Err_value_or(heap, self, d))))
    \/ Finish("unwrap_or", self, d,
              Handed(heap, ByClass(heap, self, Ok_unwrap_or(heap, self, d), Err_unwrap_or(heap, self, d))))

\* self.unwrap_or_else(op)
CallUnwrapOrElse ==
  \E self \in Refs(heap), f \in Fns :
    Finish("unwrap_or_else", self, f,
           Handed(heap, ByClass(heap, self, Ok_unwrap_or_else(heap, self, f), Err_unwrap_or_else(heap, self, f))))

\* self.unwrap_or_raise(e)
CallUnwrapOrRaise ==
  \E self \in Refs(heap), e \in ExcClasses :
    Finish("unwrap_or_raise", self, e,
           Handed(heap, ByClass(heap, self, Ok_unwrap_or_raise(heap, self, e), Err_unwrap_or_raise(heap, self, e))))

\* self.map_or(default, op)
CallMapOr ==
  \E self \in Refs(heap), d \in Defaults, f \in Fns :
    Finish("map_or", self, <<d, f>>,
           Handed(heap, ByClass(heap, self, Ok_map_or(heap, self, d, f), Err_map_or(heap, self, d, f))))

\* self.map_or_else(default_op, op)
CallMapOrElse ==
  \E self \in Refs(heap), d \in ZeroFns, f \in Fns :
    Finish("map_or_else", self, <<d, f>>,
           Handed(heap, ByClass(heap, self, Ok_map_or_else(heap, self, d, f), Err_map_or_else(heap, self, d, f))))

\* self.map_err(op), self.alt(op)
CallMapErr ==
  \E self \in Refs(heap), f \in Fns :
    \/ Finish("map_err", self, f,
              Handed(heap, ByClass(heap, self, Ok_map_err(heap, self, f), Err_map_err(heap, self, f))))
    \/ Finish("alt", self, f,
              Handed(heap, ByClass(heap, self, Ok_alt(heap, self, f), Err_alt(heap, self, f))))

\* self.or_else(op)
CallOrElse ==
  \E self \in Refs(heap), f \in RFns :
    Finish("or_else", self, f,
           Handed(heap, ByClass(heap, self, Ok_or_else(heap, self, f), Err_or_else(heap, self, f))))

\* self.inspect(op), self.inspect_err(op)
CallInspect ==
  \E self \in Refs(heap), f \in Fns :
    \/ Finish("inspect", self, f,
              Handed(heap, ByClass(heap, self, Ok_inspect(heap, self, f), Err_inspect(heap, self, f))))
    \/ Finish("inspect_err", self, f,
              Handed(heap, ByClass(heap, self, Ok_inspect_err(heap, self, f), Err_inspect_err(heap, self, f))))

\* await self.map_async(op)
CallMapAsync ==
  \E self \in Refs(heap), f \in Fns :
    Finish("map_async", self, f,
           Handed(heap, ByClass(heap, self, Ok_map_async(heap, self, f), Err_map_async(heap, self, f))))

\* await self.and_then_async(op)
CallAndThenAsync ==
  \E self \in Refs(heap), f \in RFns :
    Finish("and_then_async", self, f,
           Handed(heap, ByClass(heap, self, Ok_and_then_async(heap, self, f), Err_and_then_async(heap, self, f))))

\* the calls of the remaining methods and of the free functions
CombCalls ==
  \/ CallIsOk
  \/ CallOkErr
  \/ CallValueProperty
  \/ CallUnwrapOr
  \/ CallUnwrapOrElse
  \/ CallUnwrapOrRaise
  \/ CallMapOr
  \/ CallMapOrElse
  \/ CallMapErr
  \/ CallOrElse
  \/ CallInspect
  \/ CallMapAsync
  \/ CallAndThenAsync
  \/ CallMatch
  \/ CallMatchFn

NextComb ==
  \/ NewOk
  \/ NewErr
  \/ CombCalls

SpecComb == Init /\ [][NextComb]_vars

(***************************************************************************)
(* Adapter factories: as_result, as_async_result, catch, catch_async       *)
(***************************************************************************)
\* the classes the model knows, each with its base class
Base(c) ==
  CASE c = "BaseException" -> "object"
    [] c = "Exception" -> "BaseException"
    [] c = "KeyboardInterrupt" -> "BaseException"
    [] c = "ValueError" -> "Exception"
    [] c = "LookupError" -> "Exception"
    [] c = "KeyError" -> "LookupError"
    [] c = "TypeError" -> "Exception"
    [] c = "AttributeError" -> "Exception"
    [] c = "RuntimeError" -> "Exception"
    [] c = "int" -> "object"
    [] c = "str" -> "object"
    [] OTHER -> "object"

\* issubclass(c, d)
RECURSIVE IsSubclass(_, _)
IsSubclass(c, d) ==
  IF c = d THEN TRUE
  ELSE IF c = "object" THEN FALSE
  ELSE IsSubclass(Base(c), d)

\* what a caller may pass as an error kind: a class, or an object that is no
\* class (a string)
ClassD(name) == [d |-> "class", name |-> name]
InstanceD(name) == [d |-> "instance", name |-> name]

Descriptors ==
  {ClassD("Exception"), ClassD("LookupError"), ClassD("KeyError"),
   ClassD("ValueError"), ClassD("int"), InstanceD("str")}

\* the argument tuples *exceptions of a factory call
KindTuples ==
  {<<>>} \cup {<<a>> : a \in Descriptors} \cup {<<a, b>> : a, b \in Descriptors}

\* isinstance(exc, type) and issubclass(exc, BaseException)
IsExceptionType(exc) == exc.d = "class" /\ IsSubclass(exc.name, "BaseException")

\* the guard shared by the four factories, reversed: an empty tuple passes
KindsRejected_mut(exceptions) ==
  \E i \in 1..Len(exceptions) : ~IsExceptionType(exceptions[i])

\* not exceptions or not all(... for exc in exceptions)
KindsRejected(exceptions) ==
  \/ exceptions = <<>>
  \/ ~(\A i \in 1..Len(exceptions) : IsExceptionType(exceptions[i]))

Factories == {"as_result", "as_async_result", "catch", "catch_async"}

\* TypeError('as_result() requires at least one exception type')
KindsTypeError ==
  [cls |-> "TypeError", message |-> "as_result() requires at least one exception type"]

Decorator(factory, exceptions) ==
  [k |-> "decorator", factory |-> factory, exceptions |-> exceptions]
Wrapper(factory, exceptions) ==
  [k |-> "wrapper", factory |-> factory, exceptions |-> exceptions]

\* as_result(*exceptions)
as_result(h, exceptions) ==
  IF KindsRejected(exceptions) THEN Raises(h, KindsTypeError, <<>>)
  ELSE Returns(h, Decorator("as_result", exceptions), <<>>)

\* as_async_result(*exceptions)
as_async_result(h, exceptions) ==
  IF KindsRejected(exceptions) THEN Raises(h, KindsTypeError, <<>>)
  ELSE Returns(h, Decorator("as_async_result", exceptions), <<>>)

\* catch(*exceptions)
catch(h, exceptions) ==
  IF KindsRejected(exceptions) THEN Raises(h, KindsTypeError, <<>>)
  ELSE Returns(h, Decorator("catch", exceptions), <<>>)

\* catch_async(*exceptions)
catch_async(h, exceptions) ==
  IF KindsRejected(exceptions) THEN Raises(h, KindsTypeError, <<>>)
  ELSE Returns(h, Decorator("catch_async", exceptions), <<>>)

CallFactoryOp(factory, h, exceptions) ==
  CASE factory = "as_result" -> as_result(h, exceptions)
    [] factory = "as_async_result" -> as_async_result(h, exceptions)
    [] factory = "catch" -> catch(h, exceptions)
    [] factory = "catch_async" -> catch_async(h, exceptions)

\* what one call of the wrapped operation does: it returns a value or
\* raises an exception (a new object, carrying its traceback)
OpReturns(v) == [kind |-> "return", v |-> v]
OpRaises(cls) == [kind |-> "raise", exc |-> ExcV(cls, "op", TRUE, 4)]

OpOutcomes ==
  {OpReturns(v) : v \in {IntV(1), NoneV}}
    \cup {OpRaises(c) : c \in {"ValueError", "KeyError", "KeyboardInterrupt"}}

\* the except clause catching every exception
Caught_mut(exc, exceptions) == TRUE

\* except exceptions as exc: the raised object is an instance of a listed class
Caught(exc, exceptions) ==
  \E i \in 1..Len(exceptions) : IsSubclass(exc.cls, exceptions[i].name)

\* as_result.decorator.wrapper
as_result_wrapper(h, exceptions, b) ==
  IF b.kind = "return" THEN Returns(Alloc(h, Ok__init__(b.v)), ResRet(NewRef(h)), <<b>>)
  ELSE IF Caught(b.exc, exceptions)
       THEN Returns(Alloc(h, Err__init__(b.exc)), ResRet(NewRef(h)), <<b>>)
       ELSE Raises(h, b.exc, <<b>>)

\* as_async_result.decorator.async_wrapper
as_async_result_wrapper(h, exceptions, b) ==
  IF b.kind = "return" THEN Returns(Alloc(h, Ok__init__(b.v)), ResRet(NewRef(h)), <<b>>)
  ELSE IF Caught(b.exc, exceptions)
       THEN Returns(Alloc(h, Err__init__(b.exc)), ResRet(NewRef(h)), <<b>>)
       ELSE Raises(h, b.exc, <<b>>)

\* catch.decorator.wrapper turning every exception into an Err
catch_wrapper_mut(h, exceptions, b) ==
  IF b.kind = "raise"
  THEN Returns(Alloc(h, Err__init__(b.exc)), ResRet(NewRef(h)), <<b>>)
  ELSE Returns(Alloc(h, Ok__init__(b.v)), ResRet(NewRef(h)), <<b>>)

\* catch.decorator.wrapper
catch_wrapper(h, exceptions, b) ==
  IF b.kind = "raise"
  THEN IF Caught(b.exc, exceptions)
       THEN Returns(Alloc(h, Err__init__(b.exc)), ResRet(NewRef(h)), <<b>>)
       ELSE Raises(h, b.exc, <<b>>)
  ELSE Returns(Alloc(h, Ok__init__(b.v)), ResRet(NewRef(h)), <<b>>)

\* catch_async.decorator.wrapper
catch_async_wrapper(h, exceptions, b) ==
  IF b.kind = "raise"
  THEN IF Caught(b.exc, exceptions)
       THEN Returns(Alloc(h, Err__init__(b.exc)), ResRet(NewRef(h)), <<b>>)
       ELSE Raises(h, b.exc, <<b>>)
  ELSE Returns(Alloc(h, Ok__init__(b.v)), ResRet(NewRef(h)), <<b>>)

CallWrapperOp(factory, h, exceptions, b) ==
  CASE factory = "as_result" -> as_result_wrapper(h, exceptions, b)
    [] factory = "as_async_result" -> as_async_result_wrapper(h, exceptions, b)
    [] factory = "catch" -> catch_wrapper(h, exceptions, b)
    [] factory = "catch_async" -> catch_async_wrapper(h, exceptions, b)

\* factory(*exceptions)
CallFactory ==
  \E factory \in Factories, exceptions \in KindTuples :
    Finish(factory, 0, exceptions, CallFactoryOp(factory, heap, exceptions))

\* decorator(f): possible only on a decorator a factory returned
CallDecorator ==
  /\ out.op \in Factories
  /\ out.kind = "return"
  /\ Finish("decorator", 0, out.res,
            Returns(heap, Wrapper(out.res.factory, out.res.exceptions), <<>>))

\* wrapper(*args, **kwargs): the wrapped operation runs once, inside the try
CallWrapper ==
  \E b \in OpOutcomes :
    /\ out.op = "decorator"
    /\ LET r == CallWrapperOp(out.res.factory, heap, out.res.exceptions, b)
       IN /\ Len(r.heap) <= MaxRoots
          /\ Finish("wrapper", 0, out.res, r)

NextAdapt ==
  \/ CallFactory
  \/ CallDecorator
  \/ CallWrapper

SpecAdapt == Init /\ [][NextAdapt]_vars

(***************************************************************************)
(* Do-notation: do, do_async and the two interpreters                      *)
(***************************************************************************)
\* a sequence (generator object): its kind, how often it was resumed, the
\* values sent into it, the Results it produced and how it ended
NewGen(kind) ==
  [kind |-> kind, state |-> "created", resumes |-> 0, sent |-> <<>>,
   yielded |-> <<>>, final |-> [explicit |-> FALSE, value |-> NoneV]]

\* the values a sequence builds its Results and its final value from
DoValues == {IntV(1), StrV("fail")}

SeqExc == ExcV("RuntimeError", "step", TRUE, 5)

\* what a resumed sequence may do next: produce a Result it constructs,
\* produce a Result that already exists, end (with return v, or by running
\* off its end), or raise.  An asynchronous generator cannot return a value.
YieldNew(obj) == [e |-> "yield_new", obj |-> obj]
YieldOld(ref) == [e |-> "yield_old", ref |-> ref]
Return(explicit, v) == [e |-> "return", explicit |-> explicit, value |-> v]
RaiseIn == [e |-> "raise"]

GenEvents(h, g) ==
  {YieldNew(Ok__init__(v)) : v \in DoValues}
    \cup {YieldNew(Err__init__(v)) : v \in DoValues}
    \cup {YieldOld(ref) : ref \in Refs(h)}
    \cup {Return(FALSE, NoneV), RaiseIn}
    \cup (IF g.kind = "sync" THEN {Return(TRUE, v) : v \in DoValues \cup {NoneV}} ELSE {})

\* the args of the StopIteration a finished generator raises: a returned
\* None leaves them empty, any other returned value is their one element
StopArgs(value) == IF value = NoneV THEN <<>> ELSE <<value>>

\* the interpreter's locals at the top of its loop
StartRun(form, usage) ==
  [pc |-> "loop", form |-> form, usage |-> usage, value |-> NoneV, last_ok_result |-> 0]

Running(op, usage) == [op |-> op, self |-> 0, arg |-> usage, kind |-> "running"]

\* the loop body after send() with the isinstance test left out
run_do_result_mut(h, r, res) ==
  [done |-> FALSE,
   run |-> [r EXCEPT !.last_ok_result = res, !.value = h[res].value]]

\* _run_do, the loop body after send() returned res
run_do_result(h, r, res) ==
  IF h[res].tag = "Err"
  THEN [done |-> TRUE, r |-> Returns(h, ResRet(res), <<>>)]
  ELSE [done |-> FALSE,
        run |-> [r EXCEPT !.last_ok_result = res, !.value = Ok_unwrap(h, res).ret.v]]

\* the StopIteration handler preferring the remembered Ok to the final value
run_do_stop_mut(h, r, args) ==
  IF r.last_ok_result # 0 THEN Returns(h, ResRet(r.last_ok_result), <<>>)
  ELSE IF args # <<>> THEN Returns(Alloc(h, Ok__init__(args[1])), ResRet(NewRef(h)), <<>>)
  ELSE Returns(Alloc(h, Ok__init__(NoneV)), ResRet(NewRef(h)), <<>>)

\* _run_do, the StopIteration handler
run_do_stop(h, r, args) ==
  IF args # <<>> THEN Returns(Alloc(h, Ok__init__(args[1])), ResRet(NewRef(h)), <<>>)
  ELSE IF r.last_ok_result # 0 THEN Returns(h, ResRet(r.last_ok_result), <<>>)
  ELSE Returns(Alloc(h, Ok__init__(NoneV)), ResRet(NewRef(h)), <<>>)

\* the loop body after asend() that sends the same value again
run_do_async_result_stale(h, r, res) ==
  IF h[res].tag = "Err"
  THEN [done |-> TRUE, r |-> Returns(h, ResRet(res), <<>>)]
  ELSE [done |-> FALSE, run |-> [r EXCEPT !.last_ok_result = res]]

\* the loop body after asend() that goes on after an Err
run_do_async_result_on(h, r, res) ==
  [done |-> FALSE,
   run |-> [r EXCEPT !.value = h[res].value, !.last_ok_result = res]]

\* _run_do_async, the loop body after asend() returned res
run_do_async_result(h, r, res) ==
  IF h[res].tag = "Err"
  THEN [done |-> TRUE, r |-> Returns(h, ResRet(res), <<>>)]
  ELSE [done |-> FALSE,
        run |-> [r EXCEPT !.value = Ok_unwrap(h, res).ret.v, !.last_ok_result = res]]

\* the StopAsyncIteration handler without the fallback to the last Ok
run_do_async_stop_mut(h, r, args) ==
  IF args # <<>> THEN Returns(Alloc(h, Ok__init__(args[1])), ResRet(NewRef(h)), <<>>)
  ELSE Returns(Alloc(h, Ok__init__(NoneV)), ResRet(NewRef(h)), <<>>)

\* _run_do_async, the StopAsyncIteration handler
run_do_async_stop(h, r, args) ==
  IF args # <<>> THEN Returns(Alloc(h, Ok__init__(args[1])), ResRet(NewRef(h)), <<>>)
  ELSE IF r.last_ok_result # 0 THEN Returns(h, ResRet(r.last_ok_result), <<>>)
  ELSE Returns(Alloc(h, Ok__init__(NoneV)), ResRet(NewRef(h)), <<>>)

\* what do / do_async may be handed: a generator object, an asynchronous
\* generator object, a function making either, or something else
DoArgs == {"generator", "async_generator", "genfunc", "asyncgenfunc", "other"}

\* isinstance(fn_or_gen, Generator)
IsGenerator(arg) == arg = "generator"

\* inspect.isasyncgen(fn_or_gen)
IsAsyncGen(arg) == arg = "async_generator"

\* callable(fn_or_gen)
IsCallable(arg) == arg \in {"genfunc", "asyncgenfunc"}

\* the kind of sequence the argument is, or makes when called
KindOf(arg) == IF arg \in {"generator", "genfunc"} THEN "sync" ELSE "async"

DoWrapper(op, fn) == [k |-> "do_wrapper", op |-> op, fn |-> fn]

DoTypeError ==
  [cls |-> "TypeError",
   message |-> "do() must be used as a decorator or called with a generator instance."]

DoAsyncTypeError ==
  [cls |-> "TypeError",
   message |-> "do_async() must be used as a decorator or called with an async generator."]

\* gen.send / gen.asend looked up on an object that has no such attribute
NoSend == [cls |-> "AttributeError", message |-> "object has no attribute 'send'"]
NoAsend == [cls |-> "AttributeError", message |-> "object has no attribute 'asend'"]

\* the sequence object the caller holds when it is one that was passed
GenFor(arg) ==
  IF arg \in {"generator", "async_generator"} THEN NewGen(KindOf(arg)) ELSE NoGen

\* do(fn_or_gen)
CallDo ==
  \E arg \in DoArgs :
    /\ run.pc = "idle"
    /\ gen' = GenFor(arg)
    /\ heap' = heap
    /\ UNCHANGED readers
    /\ IF IsGenerator(arg)
       THEN run' = StartRun("sync", "direct") /\ out' = Running("do", "direct")
       ELSE IF IsCallable(arg)
       THEN run' = Idle /\ out' = Done("do", 0, arg, Returns(heap, DoWrapper("do", arg), <<>>))
       ELSE run' = Idle /\ out' = Done("do", 0, arg, Raises(heap, DoTypeError, <<>>))

\* do_async(fn_or_gen)
CallDoAsync ==
  \E arg \in DoArgs :
    /\ run.pc = "idle"
    /\ gen' = GenFor(arg)
    /\ heap' = heap
    /\ UNCHANGED readers
    /\ IF IsAsyncGen(arg)
       THEN run' = StartRun("async", "direct") /\ out' = Running("do_async", "direct")
       ELSE IF IsCallable(arg)
       THEN run' = Idle
            /\ out' = Done("do_async", 0, arg, Returns(heap, DoWrapper("do_async", arg), <<>>))
       ELSE run' = Idle /\ out' = Done("do_async", 0, arg, Raises(heap, DoAsyncTypeError, <<>>))

\* do.wrapper(*args, **kwargs): gen = fn(...), then _run_do(gen)
CallDoWrapper ==
  /\ run.pc = "idle"
  /\ out.op = "do"
  /\ out.kind = "return"
  /\ out.res.k = "do_wrapper"
  /\ gen' = NewGen(KindOf(out.res.fn))
  /\ run' = StartRun("sync", "decorator")
  /\ out' = Running("do", "decorator")
  /\ heap' = heap
  /\ UNCHANGED readers

\* do_async.wrapper(*args, **kwargs), awaited: async_gen = fn(...), then
\* await _run_do_async(async_gen)
CallDoAsyncWrapper ==
  /\ run.pc = "idle"
  /\ out.op = "do_async"
  /\ out.kind = "return"
  /\ out.res.k = "do_wrapper"
  /\ gen' = NewGen(KindOf(out.res.fn))
  /\ run' = StartRun("async", "decorator")
  /\ out' = Running("do_async", "decorator")
  /\ heap' = heap
  /\ UNCHANGED readers

\* the run ends: the interpreter returns or raises
EndRun(op, r) ==
  /\ Len(r.heap) <= MaxObjs
  /\ heap' = r.heap
  /\ out' = Done(op, 0, run.usage, r)
  /\ run' = Idle

\* the sequence is resumed with the value sent and acts as ev says
Resumed(g, value, ev, h) ==
  [g EXCEPT !.resumes = @ + 1,
            !.sent = Append(@, value),
            !.state = IF ev.e \in {"yield_new", "yield_old"} THEN "suspended"
                      ELSE IF ev.e = "return" THEN "finished" ELSE "raised",
            !.yielded = IF ev.e = "yield_new" THEN Append(@, NewRef(h))
                        ELSE IF ev.e = "yield_old" THEN Append(@, ev.ref)
                        ELSE @,
            !.final = IF ev.e = "return" THEN [explicit |-> ev.explicit, value |-> ev.value]
                      ELSE @]

\* one pass of the loop of _run_do: res = gen.send(value), then the test on
\* res, or the StopIteration handler when the sequence ended
DoStep ==
  /\ run.pc = "loop"
  /\ run.form = "sync"
  /\ UNCHANGED readers
  /\ IF gen.kind # "sync"
     THEN /\ EndRun("do", Raises(heap, NoSend, <<>>))
          /\ gen' = gen
     ELSE \E ev \in GenEvents(heap, gen) :
            /\ ev.e \in {"yield_new", "yield_old"} => gen.resumes < MaxResumes
            /\ gen' = Resumed(gen, run.value, ev, heap)
            /\ CASE ev.e = "raise" -> EndRun("do", Raises(heap, SeqExc, <<>>))
                 [] ev.e = "return" -> EndRun("do", run_do_stop(heap, run, StopArgs(ev.value)))
                 [] OTHER ->
                      LET h == IF ev.e = "yield_new" THEN Alloc(heap, ev.obj) ELSE heap
                          res == IF ev.e = "yield_new" THEN NewRef(heap) ELSE ev.ref
                          step == run_do_result(h, run, res)
                      IN IF step.done
                         THEN EndRun("do", step.r)
                         ELSE /\ Len(h) <= MaxObjs
                              /\ heap' = h
                              /\ run' = step.run
                              /\ out' = out

\* one pass of the loop of _run_do_async: res = await gen.asend(value), then
\* the test on res, or the StopAsyncIteration handler
DoAsyncStep ==
  /\ run.pc = "loop"
  /\ run.form = "async"
  /\ UNCHANGED readers
  /\ IF gen.kind # "async"
     THEN /\ EndRun("do_async", Raises(heap, NoAsend, <<>>))
          /\ gen' = gen
     ELSE \E ev \in GenEvents(heap, gen) :
            /\ ev.e \in {"yield_new", "yield_old"} => gen.resumes < MaxResumes
            /\ gen' = Resumed(gen, run.value, ev, heap)
            /\ CASE ev.e = "raise" -> EndRun("do_async", Raises(heap, SeqExc, <<>>))
                 [] ev.e = "return" ->
                      EndRun("do_async", run_do_async_stop(heap, run, StopArgs(ev.value)))
                 [] OTHER ->
                      LET h == IF ev.e = "yield_new" THEN Alloc(heap, ev.obj) ELSE heap
                          res == IF ev.e = "yield_new" THEN NewRef(heap) ELSE ev.ref
                          step == run_do_async_result(h, run, res)
                      IN IF step.done
                         THEN EndRun("do_async", step.r)
                         ELSE /\ Len(h) <= MaxObjs
                              /\ heap' = h
                              /\ run' = step.run
                              /\ out' = out

NextDo ==
  \/ CallDo
  \/ CallDoAsync
  \/ CallDoWrapper
  \/ CallDoAsyncWrapper
  \/ DoStep
  \/ DoAsyncStep

SpecDo == Init /\ [][NextDo]_vars

(***************************************************************************)
(* Threads reading the trace of one Err at the same time.  A read is the   *)
(* body of the property at the grain at which the interpreter switches     *)
(* threads: the test of the memo, the call of _capture_traceback, the      *)
(* store into self._trace and the load that return makes; each load and    *)
(* store of the attribute is atomic.                                       *)
(***************************************************************************)
\* thread t begins to evaluate self.trace
ReadStart(t) ==
  \E self \in Refs(heap) :
    /\ heap[self].tag = "Err"
    /\ readers[t].pc \in {"idle", "done"}
    /\ readers' = [readers EXCEPT ![t] = [IdleReader EXCEPT !.pc = "check", !.self = self]]
    /\ UNCHANGED <<heap, out, run, gen>>

\* the test passing every read on to return
ReadCheck_mut(t) ==
  /\ readers[t].pc = "check"
  /\ readers' = [readers EXCEPT ![t].pc = "return"]
  /\ UNCHANGED <<heap, out, run, gen>>

\* if isinstance(self._value, BaseException) and self._trace is ...
ReadCheck(t) ==
  /\ readers[t].pc = "check"
  /\ LET obj == heap[readers[t].self]
     IN readers' = [readers EXCEPT ![t].pc =
                      IF IsBaseException(obj.value) /\ obj.trace = Ellipsis
                      THEN "compute" ELSE "return"]
  /\ UNCHANGED <<heap, out, run, gen>>

\* self._capture_traceback(self._value), its result on the thread's stack
ReadCompute(t) ==
  /\ readers[t].pc = "compute"
  /\ readers' = [readers EXCEPT ![t].pc = "store",
                                ![t].local = Err_capture_traceback(heap[readers[t].self].value)]
  /\ UNCHANGED <<heap, out, run, gen>>

\* self._trace = <the result>
ReadStore(t) ==
  /\ readers[t].pc = "store"
  /\ heap' = [heap EXCEPT ![readers[t].self].trace = readers[t].local]
  /\ readers' = [readers EXCEPT ![t].pc = "return"]
  /\ UNCHANGED <<out, run, gen>>

\* return self._trace
ReadReturn(t) ==
  /\ readers[t].pc = "return"
  /\ readers' = [readers EXCEPT ![t].pc = "done",
                                ![t].ret = heap[readers[t].self].trace]
  /\ UNCHANGED <<heap, out, run, gen>>

NextRace ==
  \/ NewErr
  \/ \E t \in Threads : ReadStart(t)
  \/ \E t \in Threads : ReadCheck(t)
  \/ \E t \in Threads : ReadCompute(t)
  \/ \E t \in Threads : ReadStore(t)
  \/ \E t \in Threads : ReadReturn(t)

SpecRace == Init /\ [][NextRace]_vars

(***************************************************************************)
(* The whole library: every operation, each part of it started from the    *)
(* state after import.  The parts share no state (a call's outcome depends *)
(* only on its receiver and arguments), so a behaviour stays in the part   *)
(* its first call belongs to.                                              *)
(***************************************************************************)
ConstructorOps == {"none", "Ok", "Err"}

ResultOps == {"unwrap", "expect", "unwrap_err", "expect_err", "map", "and_then"}

CombOps ==
  {"is_ok", "is_err", "is_ok_fn", "is_err_fn", "ok", "err", "ok_value", "err_value",
   "value_or", "unwrap_or", "unwrap_or_else", "unwrap_or_raise", "map_or",
   "map_or_else", "map_err", "alt", "or_else", "inspect", "inspect_err",
   "map_async", "and_then_async", "match", "match_fn", "trace"}

AdaptOps == Factories \cup {"none", "decorator", "wrapper"}

DoOps == {"none", "do", "do_async"}

\* the calls of the unwrap family, map and and_then
ResultCalls ==
  \/ CallUnwrap
  \/ CallExpect
  \/ CallUnwrapErr
  \/ CallExpectErr
  \/ CallMap
  \/ CallAndThen

NextLib ==
  \/ out.op \in ConstructorOps \cup ResultOps \cup CombOps /\ (NewOk \/ NewErr)
  \/ out.op \in ConstructorOps \cup ResultOps /\ ResultCalls
  \/ out.op \in ConstructorOps \cup CombOps /\ CombCalls
  \/ out.op \in ConstructorOps \cup CombOps /\ CallTrace
  \/ out.op \in AdaptOps /\ NextAdapt
  \/ out.op \in DoOps /\ NextDo

SpecLib == Init /\ [][NextLib]_vars

(***************************************************************************)
(* Properties of the unwrap family, map and and_then (SpecResult)          *)
(***************************************************************************)
Receiver == heap[out.self]

\* C6: unwrap and expect on an Err, and unwrap_err and expect_err on an Ok,
\* raise UnwrapError whose result is the receiver itself; on the other
\* variant the four calls return the held payload and do not raise.
C6_UnwrapViolations ==
  /\ out.op \in {"unwrap", "expect"} =>
       IF Receiver.tag = "Err"
       THEN out.kind = "raise" /\ out.res.cls = "UnwrapError" /\ out.res.result = out.self
       ELSE out.kind = "return" /\ out.res = ValRet(Receiver.value)
  /\ out.op \in {"unwrap_err", "expect_err"} =>
       IF Receiver.tag = "Ok"
       THEN out.kind = "raise" /\ out.res.cls = "UnwrapError" /\ out.res.result = out.self
       ELSE out.kind = "return" /\ out.res = ValRet(Receiver.value)

C6_Witness ==
  /\ out.op = "expect_err"
  /\ Receiver.tag = "Ok"
  /\ out.kind = "raise"
  /\ out.res.result = out.self
  /\ Len(heap) > 1

\* C7: the message of the UnwrapError raised by unwrap on Err(e) contains
\* repr(e), and the one raised by expect(msg) is msg, then ": ", then repr(e).
C7_FailureMessages ==
  /\ (out.op = "unwrap" /\ Receiver.tag = "Err") =>
       Contains(out.res.message, Repr(Receiver.value))
  /\ (out.op = "expect" /\ Receiver.tag = "Err") =>
       out.res.message = out.arg \o ": " \o Repr(Receiver.value)

C7_Witness ==
  /\ out.op = "expect"
  /\ Receiver = Err__init__(StrV("fail"))
  /\ out.res.message = "Custom message: 'fail'"

\* C8: the UnwrapError raised by unwrap or expect on Err(e) has e itself as
\* its cause when e is an exception, and no cause otherwise.
C8_CauseChaining ==
  (out.op \in {"unwrap", "expect"} /\ Receiver.tag = "Err") =>
    /\ Receiver.value.t = "exc" => out.res.cause = Receiver.value
    /\ Receiver.value.t # "exc" => out.res.cause = NoCause

C8_Witness ==
  /\ out.op = "unwrap"
  /\ Receiver.tag = "Err"
  /\ Receiver.value.t = "exc"
  /\ out.res.cause.oid = Receiver.value.oid

\* C9: Ok(v).map(f) is an Ok holding f(v) and invokes f once, on v;
\* Err(e).map(f) equals Err(e) and invokes nothing.
C9_MapLaw ==
  out.op = "map" =>
    IF Receiver.tag = "Ok"
    THEN /\ out.calls = <<Call(out.arg, Receiver.value)>>
         /\ Apply(out.arg, Receiver.value).kind = "return" =>
              /\ out.kind = "return"
              /\ heap[out.res.ref].tag = "Ok"
              /\ heap[out.res.ref].value = Apply(out.arg, Receiver.value).v
    ELSE /\ out.kind = "return"
         /\ ResultEq(heap, out.res.ref, out.self)
         /\ out.calls = <<>>

C9_Witness ==
  /\ out.op = "map"
  /\ out.arg = "const"
  /\ Receiver = Ok__init__(StrV("fail"))
  /\ out.kind = "return"
  /\ heap[out.res.ref] = Ok__init__(IntV(1))

\* the receiver of a chain followed by the Results its calls returned
ChainResults == <<out.self>> \o out.rets

FirstErr(R) == CHOOSE j \in 1..Len(R) :
  /\ heap[R[j]].tag = "Err"
  /\ \A k \in 1..(j - 1) : heap[R[k]].tag = "Ok"

\* C10: Ok(v).and_then(f) returns the very Result f returned for v;
\* Err(e).and_then(f) equals Err(e) and does not invoke f; in a chain the
\* first Err is the final result and no later callback runs.
C10_AndThenLaw ==
  (out.op = "and_then" /\ out.kind = "return") =>
    /\ Len(out.arg) = 1 =>
         IF Receiver.tag = "Ok"
         THEN /\ out.calls = <<Call(out.arg[1], Receiver.value)>>
              /\ out.res.ref = Len(heap)
              /\ out.res.ref # out.self
              /\ heap[out.res.ref] = ApplyR(<<>>, out.arg[1], Receiver.value).heap[1]
         ELSE /\ ResultEq(heap, out.res.ref, out.self)
              /\ out.calls = <<>>
    /\ (\E j \in 1..Len(ChainResults) : heap[ChainResults[j]].tag = "Err") =>
         LET j == FirstErr(ChainResults)
         IN /\ ResultEq(heap, out.res.ref, ChainResults[j])
            /\ Len(out.calls) = j - 1

C10_Witness ==
  /\ out.op = "and_then"
  /\ out.kind = "return"
  /\ out.arg = <<"ok_same", "fail", "ok_const">>
  /\ Receiver.tag = "Ok"
  /\ heap[out.res.ref] = Err__init__(StrV("fail"))
  /\ Len(out.calls) = 2

(***************************************************************************)
(* Properties of swap, equality, hashing and trace (SpecValue), and of      *)
(* match (SpecComb)                                                        *)
(***************************************************************************)
\* C11: swap is defined on both variants: the call returns a Result of the
\* other variant holding the receiver's value, so that swapping twice gives
\* a Result equal to the receiver.
C11_SwapDefined ==
  out.op = "swap" =>
    /\ out.kind = "return"
    /\ out.res.k = "res"
    /\ heap[out.res.ref].tag = (IF Receiver.tag = "Ok" THEN "Err" ELSE "Ok")
    /\ heap[out.res.ref].value = Receiver.value

\* the Result the last comparison was made with has the receiver's variant
\* and holds an equal value
SameVariantAndValue ==
  /\ out.arg.k = "res"
  /\ heap[out.arg.ref].tag = Receiver.tag
  /\ heap[out.arg.ref].value = Receiver.value

\* C12: == is true exactly for a Result of the same variant holding an
\* equal value (never across variants, never for a raw value) and != is its
\* negation; Results that are equal have equal hashes; the hash is that of
\* the pair of the variant tag and the value; the trace memo plays no part.
C12_EqualityAndHashing ==
  /\ out.op = "eq" => out.res = ValRet(BoolV(SameVariantAndValue))
  /\ out.op = "ne" => out.res = ValRet(BoolV(~SameVariantAndValue))
  /\ out.op = "hash" =>
       out.res = ValRet(IntV(TupleHash(<<BoolV(Receiver.tag = "Ok"), Receiver.value>>)))
  /\ \A a, b \in Refs(heap) :
       Result__eq__(heap, a, ResRet(b)) => Result__hash__(heap, a) = Result__hash__(heap, b)
  /\ \A a, b \in Refs(heap) :
       (heap[a].value = heap[b].value /\ heap[a].tag # heap[b].tag) =>
         /\ ~Result__eq__(heap, a, ResRet(b))
         /\ Ok_hash_key(heap[a].value) # Err_hash_key(heap[b].value)

C12_Witness ==
  /\ out.op = "eq"
  /\ out.arg.k = "res"
  /\ out.arg.ref # out.self
  /\ Receiver.tag = "Err"
  /\ Receiver.value.t = "exc"
  /\ Receiver.trace # Ellipsis
  /\ heap[out.arg.ref].tag = "Err"
  /\ heap[out.arg.ref].trace = Ellipsis
  /\ out.res = ValRet(BoolV(TRUE))

\* the payload is an exception that was raised
WasRaised(v) == v.t = "exc" /\ v.tb

\* some string of the trace names both the class and the message of e
Mentions(lines, e) ==
  \E i \in 1..Len(lines) : Contains(lines[i], e.cls) /\ Contains(lines[i], e.msg)

OwnRole == IF Receiver.tag = "Ok" THEN "ok" ELSE "err"
OwnHandler == IF Receiver.tag = "Ok" THEN out.arg[1] ELSE out.arg[2]

\* the last call ran the receiver's own handler once, on the payload, and
\* nothing else, and returned what the handler returned
RanOwnHandler ==
  /\ out.calls = <<HandlerCall(OwnRole, OwnHandler, Receiver.value)>>
  /\ Apply(OwnHandler, Receiver.value).kind = "return" =>
       out.kind = "return" /\ out.res = ValRet(Apply(OwnHandler, Receiver.value).v)

\* C14: the method match runs only the handler of the receiver's variant and
\* returns its result, and raises ValueError, running nothing, when that
\* handler is missing, whether or not the other one is given; the function
\* match returns the result of the handler it runs, and returns None,
\* running nothing, for an Err without an err handler.
C14_MatchDispatch ==
  /\ out.op = "match" =>
       IF OwnHandler = NoHandler
       THEN out.kind = "raise" /\ out.res.cls = "ValueError" /\ out.calls = <<>>
       ELSE RanOwnHandler
  /\ out.op = "match_fn" =>
       IF OwnHandler = NoHandler
       THEN out.kind = "return" /\ out.res = ValRet(NoneV) /\ out.calls = <<>>
       ELSE RanOwnHandler

C14_Witness ==
  /\ out.op = "match"
  /\ Receiver.tag = "Ok"
  /\ out.arg = <<NoHandler, "ident">>
  /\ out.kind = "raise"
  /\ out.res.cls = "ValueError"
  /\ out.calls = <<>>

(***************************************************************************)
(* Properties of the adapters (SpecAdapt)                                  *)
(***************************************************************************)
\* the error raised is an instance of one of the declared kinds
MatchesKinds(exc, kinds) ==
  \E i \in 1..Len(kinds) : IsSubclass(exc.cls, kinds[i].name)

\* C3: a call of the wrapper made by as_result(kinds...) returns Ok(r) when
\* the operation returns r, returns Err holding the raised error itself when
\* that error matches a declared kind, and lets any other error through.
C3_AsResultOutcomes ==
  (out.op = "wrapper" /\ out.arg.factory = "as_result") =>
    LET b == out.calls[1]
    IN /\ Len(out.calls) = 1
       /\ b.kind = "return" =>
            out.kind = "return" /\ heap[out.res.ref] = Ok__init__(b.v)
       /\ (b.kind = "raise" /\ MatchesKinds(b.exc, out.arg.exceptions)) =>
            /\ out.kind = "return"
            /\ heap[out.res.ref].tag = "Err"
            /\ heap[out.res.ref].value = b.exc
       /\ (b.kind = "raise" /\ ~MatchesKinds(b.exc, out.arg.exceptions)) =>
            out.kind = "raise" /\ out.res = b.exc

C3_Witness ==
  /\ out.op = "wrapper"
  /\ out.arg.factory = "as_result"
  /\ out.arg.exceptions = <<ClassD("LookupError")>>
  /\ out.calls = <<OpRaises("KeyError")>>
  /\ out.kind = "return"
  /\ heap[out.res.ref].tag = "Err"

ValidKinds(kinds) ==
  /\ kinds # <<>>
  /\ \A i \in 1..Len(kinds) :
       kinds[i].d = "class" /\ IsSubclass(kinds[i].name, "BaseException")

\* C4: each factory raises TypeError, running nothing, exactly when it is
\* given no kind or some kind that is no exception class; a decorator or a
\* wrapper exists only for kinds that are all valid.
C4_FactoryValidation ==
  /\ out.op \in Factories =>
       /\ out.calls = <<>>
       /\ ~ValidKinds(out.arg) => (out.kind = "raise" /\ out.res.cls = "TypeError")
       /\ ValidKinds(out.arg) =>
            (out.kind = "return" /\ out.res = Decorator(out.op, out.arg))
  /\ out.op \in {"decorator", "wrapper"} => ValidKinds(out.arg.exceptions)

C4_Witness ==
  /\ out.op = "catch_async"
  /\ out.arg = <<ClassD("ValueError"), InstanceD("str")>>
  /\ out.kind = "raise"
  /\ out.res.cls = "TypeError"

\* what a caller observes of an outcome: whether it returned or raised, the
\* Result returned (variant, value and memo) or the very exception raised
Observed(r) ==
  IF r.kind = "return"
  THEN [kind |-> "return", result |-> r.heap[r.ret.ref]]
  ELSE [kind |-> "raise", exc |-> r.exc]

\* what the caller observed of the last call of a wrapper
ObservedOut ==
  IF out.kind = "return"
  THEN [kind |-> "return", result |-> heap[out.res.ref]]
  ELSE [kind |-> "raise", exc |-> out.res]

\* C15: for every tuple of declared kinds and every outcome of the wrapped
\* operation, the wrappers made by catch, catch_async and as_async_result
\* give the caller what the wrapper made by as_result gives for the same
\* kinds and the same outcome, and the four factories accept and reject the
\* same tuples of kinds.
C15_AdapterEquivalence ==
  /\ out.op = "wrapper" =>
       /\ Len(out.calls) = 1
       /\ ObservedOut = Observed(as_result_wrapper(<<>>, out.arg.exceptions, out.calls[1]))
  /\ out.op \in Factories =>
       /\ out.kind = as_result(<<>>, out.arg).kind
       /\ out.kind = "raise" => out.res = as_result(<<>>, out.arg).exc
       /\ out.kind = "return" => out.res.exceptions = as_result(<<>>, out.arg).ret.exceptions

C15_Witness ==
  /\ out.op = "wrapper"
  /\ out.arg.factory = "catch_async"
  /\ out.arg.exceptions = <<ClassD("ValueError"), ClassD("LookupError")>>
  /\ out.calls = <<OpRaises("KeyError")>>
  /\ out.kind = "return"
  /\ heap[out.res.ref] = Err__init__(OpRaises("KeyError").exc)

\* the message the repository's test expects of the TypeError
ExpectedKindsMessage == "as_result() requires one or more exception types"

\* C17: as_result called with an argument that is no exception type (a
\* string) raises, at decoration time, a TypeError whose message contains
\* 'as_result() requires one or more exception types'.
C17_KindsTypeErrorMessage ==
  (out.op = "as_result" /\ \E i \in 1..Len(out.arg) : out.arg[i].d = "instance") =>
    /\ out.kind = "raise"
    /\ out.res.cls = "TypeError"
    /\ Contains(out.res.message, ExpectedKindsMessage)

(***************************************************************************)
(* Properties of the do-notation interpreter (SpecDo)                      *)
(***************************************************************************)
Last(q) == q[Len(q)]

\* a synchronous sequence is being run, or was run, by do
SyncRun == out.op = "do" /\ gen.state # "none" /\ gen.kind = "sync"

\* the sequence run by do has produced an Err
ShortCircuited ==
  SyncRun /\ gen.yielded # <<>> /\ heap[Last(gen.yielded)].tag = "Err"

\* an Err is the last Result the sequence produces: the run is over, do
\* returned that very Err and the sequence was resumed once per Result
ErrEndsRun ==
  SyncRun =>
    /\ \A i \in 1..(Len(gen.yielded) - 1) : heap[gen.yielded[i]].tag = "Ok"
    /\ ShortCircuited =>
         /\ run.pc = "idle"
         /\ out.kind = "return"
         /\ out.res = ResRet(Last(gen.yielded))
         /\ gen.resumes = Len(gen.yielded)
         /\ gen.state = "suspended"

\* no step resumes a sequence that has produced an Err: it stays as it is
\* until the caller hands do or do_async another sequence
NotResumedAgain ==
  ShortCircuited => (gen' = gen \/ gen'.state \in {"none", "created"})

\* C1: as soon as a sequence run by do (directly or through the decorator)
\* produces an Err, do returns that very Err and the sequence is never
\* resumed again, however many Ok results came before.
C1_ShortCircuit == []ErrEndsRun /\ [][NotResumedAgain]_vars

C1_Witness ==
  /\ SyncRun
  /\ run.pc = "idle"
  /\ out.arg = "decorator"
  /\ Len(gen.yielded) = 3
  /\ heap[gen.yielded[1]].tag = "Ok"
  /\ heap[gen.yielded[2]].tag = "Ok"
  /\ heap[gen.yielded[3]].tag = "Err"
  /\ out.res = ResRet(gen.yielded[3])

\* a synchronous sequence ended with an explicit return of a value
ReturnedExplicitly ==
  /\ SyncRun
  /\ run.pc = "idle"
  /\ gen.state = "finished"
  /\ gen.final.explicit

\* C2 as claimed: a synchronous sequence that produced only Ok results and
\* then returned f explicitly makes do return Ok(f), for every f.
C2_OkOfEveryFinalValue ==
  ReturnedExplicitly =>
    out.kind = "return" /\ heap[out.res.ref] = Ok__init__(gen.final.value)

\* C2 amended: do returns a new Ok(f) for every returned f other than None;
\* for a returned None it returns the last Ok the sequence produced, or
\* Ok(None) when it produced none.
C2_OkOfFinalValueUnlessNone ==
  ReturnedExplicitly =>
    /\ out.kind = "return"
    /\ gen.final.value # NoneV =>
         /\ heap[out.res.ref] = Ok__init__(gen.final.value)
         /\ \A i \in 1..Len(gen.yielded) : gen.yielded[i] # out.res.ref
    /\ (gen.final.value = NoneV /\ gen.yielded # <<>>) =>
         out.res.ref = Last(gen.yielded)
    /\ (gen.final.value = NoneV /\ gen.yielded = <<>>) =>
         heap[out.res.ref] = Ok__init__(NoneV)

C2_Witness ==
  /\ ReturnedExplicitly
  /\ Len(gen.yielded) = 2
  /\ heap[gen.yielded[2]] = Ok__init__(IntV(1))
  /\ gen.final.value = StrV("fail")
  /\ heap[out.res.ref] = Ok__init__(StrV("fail"))

\* the call handed do an asynchronous sequence, or do_async a synchronous one
Mismatch ==
  /\ run.pc = "idle"
  /\ \/ out.op = "do" /\ out.arg = "async_generator"
     \/ out.op = "do_async" /\ out.arg = "generator"
     \/ out.op = "do" /\ out.arg = "decorator" /\ gen.kind = "async"
     \/ out.op = "do_async" /\ out.arg = "decorator" /\ gen.kind = "sync"

\* C5: do on an asynchronous sequence and do_async on a synchronous one
\* raise TypeError without resuming the sequence, called directly and
\* through the decorator.
C5_MismatchIsTypeError ==
  Mismatch =>
    /\ out.kind = "raise"
    /\ out.res.cls = "TypeError"
    /\ gen.resumes = 0

\* a sequence of the kind the interpreter expects is being run, or was run
MatchedRun ==
  /\ out.op \in {"do", "do_async"}
  /\ gen.state # "none"
  /\ gen.kind = (IF out.op = "do" THEN "sync" ELSE "async")

\* the run is over and the sequence ended without an explicit final value
TerminatedPlainly ==
  /\ MatchedRun
  /\ run.pc = "idle"
  /\ gen.state = "finished"
  /\ ~gen.final.explicit

\* C18: when a sequence run by do or do_async terminates without an explicit
\* final value, the interpreter returns the last Ok the sequence produced
\* (that very Result) if it produced any, and a new Ok(None) if it produced
\* no Result at all.
C18_FallbackToLastOk ==
  TerminatedPlainly =>
    /\ out.kind = "return"
    /\ gen.yielded # <<>> =>
         /\ out.res = ResRet(Last(gen.yielded))
         /\ heap[out.res.ref].tag = "Ok"
    /\ gen.yielded = <<>> => heap[out.res.ref] = Ok__init__(NoneV)

C18_Witness ==
  /\ TerminatedPlainly
  /\ out.op = "do_async"
  /\ Len(gen.yielded) = 3
  /\ heap[gen.yielded[3]] = Ok__init__(StrV("fail"))
  /\ heap[gen.yielded[2]] = Ok__init__(IntV(1))
  /\ out.res = ResRet(gen.yielded[3])

\* how many of the Results the sequence produced are Ok
OksProduced == Cardinality({i \in 1..Len(gen.yielded) : heap[gen.yielded[i]].tag = "Ok"})

\* the first resumption passes None and every later one the value of the Ok
\* produced just before it; the resumptions number one per Ok produced,
\* plus the first one once the run is over
ThreadsValues ==
  MatchedRun =>
    /\ Len(gen.sent) = gen.resumes
    /\ gen.resumes > 0 => gen.sent[1] = NoneV
    /\ \A i \in 2..gen.resumes :
         /\ heap[gen.yielded[i - 1]].tag = "Ok"
         /\ gen.sent[i] = heap[gen.yielded[i - 1]].value
    /\ gen.resumes = (IF run.pc = "loop" THEN OksProduced
                      ELSE IF gen.state = "created" THEN 0 ELSE OksProduced + 1)

\* the sequence has terminated, raised or produced an Err
SequenceOver ==
  /\ MatchedRun
  /\ \/ gen.state \in {"finished", "raised"}
     \/ gen.yielded # <<>> /\ heap[Last(gen.yielded)].tag = "Err"

\* a sequence that is over is not resumed: it stays as it is until the
\* caller hands the interpreter another one
NoResumeWhenOver ==
  SequenceOver => (gen' = gen \/ gen'.state \in {"none", "created"})

\* C19: do and do_async resume the sequence first with no input and then,
\* each time it produced an Ok(v), with exactly that v; they resume it once
\* per Ok produced plus the first time, and never once it has terminated,
\* raised or produced an Err.
C19_ValueThreading == []ThreadsValues /\ [][NoResumeWhenOver]_vars

C19_Witness ==
  /\ MatchedRun
  /\ out.op = "do_async"
  /\ run.pc = "idle"
  /\ gen.state = "finished"
  /\ gen.sent = <<NoneV, IntV(1), StrV("fail"), IntV(1)>>
  /\ gen.resumes = 4

\* the loop body and the termination handler of either interpreter
LoopBody(form, h, r, res) ==
  IF form = "sync" THEN run_do_result(h, r, res) ELSE run_do_async_result(h, r, res)

StopHandler(form, h, r, args) ==
  IF form = "sync" THEN run_do_stop(h, r, args) ELSE run_do_async_stop(h, r, args)

\* the interpreter of the given form driven by a sequence that produces the
\* Results yld, from the i-th on, and then terminates without a final value:
\* the values it passes in and what it returns
RECURSIVE Replay(_, _, _, _, _, _)
Replay(form, h, yld, i, r, sent) ==
  IF i > Len(yld)
  THEN [sent |-> Append(sent, r.value), ret |-> Observed(StopHandler(form, h, r, <<>>))]
  ELSE LET step == LoopBody(form, h, r, yld[i])
       IN IF step.done
          THEN [sent |-> Append(sent, r.value), ret |-> Observed(step.r)]
          ELSE Replay(form, h, yld, i + 1, step.run, Append(sent, r.value))

\* the run is over and ended with an Err or without an explicit final value
EndedComparably ==
  /\ MatchedRun
  /\ run.pc = "idle"
  /\ \/ gen.state = "finished" /\ ~gen.final.explicit
     \/ gen.state = "suspended"

OtherForm == IF out.op = "do" THEN "async" ELSE "sync"

\* C20: for every sequence of produced Results that ends with an Err or
\* with termination without an explicit final value, the other interpreter,
\* driven by a sequence producing the same Results, passes in the same
\* values, resumes the sequence as often and returns an equal Result.
C20_SyncAsyncEquivalence ==
  EndedComparably =>
    LET other == Replay(OtherForm, heap, gen.yielded, 1, StartRun(OtherForm, out.arg), <<>>)
    IN /\ other.sent = gen.sent
       /\ Len(other.sent) = gen.resumes
       /\ out.kind = "return"
       /\ other.ret = [kind |-> "return", result |-> heap[out.res.ref]]

C20_Witness ==
  /\ EndedComparably
  /\ out.op = "do"
  /\ gen.resumes = 3
  /\ heap[gen.yielded[1]].tag = "Ok"
  /\ heap[gen.yielded[2]].tag = "Ok"
  /\ heap[gen.yielded[3]] = Err__init__(StrV("fail"))
  /\ out.res = ResRet(gen.yielded[3])

(***************************************************************************)
(* Properties of the whole library (SpecLib)                               *)
(***************************************************************************)
\* a call has been made and has returned or raised
Settled == out.op # "none" /\ out.kind \in {"return", "raise"}

\* the exception raised during the last call by code the caller supplied (a
\* callback, a handler, the wrapped operation, the sequence), if any
CallbackFailure ==
  CASE out.op = "wrapper" ->
         IF out.calls[1].kind = "raise" THEN <<out.calls[1].exc>> ELSE <<>>
    [] out.op \in {"do", "do_async"} ->
         IF gen.state = "raised" THEN <<SeqExc>> ELSE <<>>
    [] OTHER ->
         IF out.calls # <<>> /\ Last(out.calls).fn = "raiser" THEN <<CallbackExc>> ELSE <<>>

\* (a) a call of the unwrap family on the wrong variant
UnwrapViolation ==
  \/ /\ out.op \in {"unwrap", "expect"}
     /\ Receiver.tag = "Err"
     /\ out.res.cls = "UnwrapError"
  \/ /\ out.op \in {"unwrap_err", "expect_err"}
     /\ Receiver.tag = "Ok"
     /\ out.res.cls = "UnwrapError"
  \/ /\ out.op = "unwrap_or_raise"
     /\ Receiver.tag = "Err"
     /\ out.res = NewExc(out.arg, Receiver.value)

\* (b) an adapter factory given no kind or an invalid kind
FactoryMisuse ==
  /\ out.op \in Factories
  /\ ~ValidKinds(out.arg)
  /\ out.res.cls = "TypeError"

\* (c) code the caller supplied raised, and that very exception came out
CallbackRaised ==
  /\ CallbackFailure # <<>>
  /\ out.res = CallbackFailure[1]

\* the method match called without the handler of the receiver's variant
MissingHandler ==
  /\ out.op = "match"
  /\ OwnHandler = NoHandler
  /\ out.res.cls = "ValueError"

\* do or do_async handed something that is no sequence of its kind: directly
\* (TypeError), or as what the decorated function returned (AttributeError)
WrongSequenceKind ==
  \/ /\ out.op = "do"
     /\ \/ out.arg \in {"async_generator", "other"} /\ out.res = DoTypeError
        \/ out.arg = "decorator" /\ gen.kind = "async" /\ out.res = NoSend
  \/ /\ out.op = "do_async"
     /\ \/ out.arg \in {"generator", "other"} /\ out.res = DoAsyncTypeError
        \/ out.arg = "decorator" /\ gen.kind = "sync" /\ out.res = NoAsend

\* the Result the last call returned, if it returned one
ReturnedResult ==
  IF out.kind # "return" THEN <<>>
  ELSE IF out.res.k = "res" THEN <<heap[out.res.ref]>>
  ELSE IF out.res.k = "new" THEN <<out.res.obj>>
  ELSE <<>>

\* an exception raised by code the caller supplied ends either as the
\* exception the call raises or, in an adapter wrapper that declares its
\* kind, as the payload of the Err the call returns
InterceptedOnlyByWrappers ==
  /\ (Settled /\ CallbackFailure # <<>>) =>
       \/ out.kind = "raise" /\ CallbackRaised
       \/ /\ out.op = "wrapper"
          /\ MatchesKinds(CallbackFailure[1], out.arg.exceptions)
          /\ ReturnedResult = <<Err__init__(CallbackFailure[1])>>
  /\ (/\ Settled
      /\ ReturnedResult # <<>>
      /\ ReturnedResult[1].value \in
           {CallbackExc, SeqExc} \cup {b.exc : b \in {o \in OpOutcomes : o.kind = "raise"}}) =>
       out.op = "wrapper" /\ MatchesKinds(ReturnedResult[1].value, out.arg.exceptions)

\* C16 as claimed: a call raises only as (a) an unwrap-family violation,
\* (b) misuse of an adapter factory or (c) a caller-supplied callback
\* raising, whose exception comes out unmodified; and exceptions become Err
\* only in the adapter wrappers, for declared kinds.
C16_RaisesOnlyThreeWays ==
  /\ (Settled /\ out.kind = "raise") =>
       UnwrapViolation \/ FactoryMisuse \/ CallbackRaised
  /\ InterceptedOnlyByWrappers

\* C16 amended: besides (a), (b) and (c) a call raises when (d) the method
\* match lacks the handler of the receiver's variant (ValueError) or (e) do
\* or do_async is handed something that is no sequence of its kind
\* (TypeError directly, AttributeError through the decorator); nothing else
\* raises, and exceptions become Err only in the adapter wrappers, for
\* declared kinds.
C16_RaisesOnlyAsListed ==
  /\ (Settled /\ out.kind = "raise") =>
       \/ UnwrapViolation
       \/ FactoryMisuse
       \/ CallbackRaised
       \/ MissingHandler
       \/ WrongSequenceKind
  /\ InterceptedOnlyByWrappers

C16_Witness ==
  /\ out.op = "or_else"
  /\ Receiver.tag = "Err"
  /\ out.arg = "raiser"
  /\ out.kind = "raise"
  /\ out.res = CallbackExc
  /\ out.calls = <<Call("raiser", Receiver.value)>>

(***************************************************************************)
(* Properties of the trace memo (SpecLib)                                  *)
(***************************************************************************)
\* the log of a read that computed the trace of the exception exc
Captured(exc) == <<Call("_capture_traceback", exc)>>

\* a step that reads the trace of an Err
TraceRead ==
  /\ out'.op = "trace"
  /\ \/ out.op # "trace"
     \/ out.self # out'.self
     \/ out.calls # out'.calls
     \/ heap' # heap

\* what holds of the memo in every state
MemoStates ==
  /\ \A r \in Refs(heap) :
       heap[r].tag = "Err" =>
         IF IsBaseException(heap[r].value)
         THEN heap[r].trace \in {Ellipsis, Err_capture_traceback(heap[r].value)}
         ELSE heap[r].trace = NoTrace
  /\ (out.op = "Err" /\ IsBaseException(out.arg)) =>
       heap[out.res.ref].trace = Ellipsis /\ out.calls = <<>>
  /\ out.op = "trace" =>
       out.res.t # Ellipsis /\ out.res.t = Receiver.trace

\* what holds of the memo in every step
MemoSteps ==
  /\ \A r \in Refs(heap) :
       heap[r].tag = "Err" =>
         /\ heap[r].trace # Ellipsis => heap'[r].trace = heap[r].trace
         /\ heap'[r].trace # heap[r].trace =>
              /\ out'.op = "trace"
              /\ out'.self = r
              /\ out'.calls = Captured(heap[r].value)
  /\ TraceRead =>
       IF heap[out'.self].trace = Ellipsis
       THEN /\ out'.calls = Captured(heap[out'.self].value)
            /\ heap'[out'.self].trace = Err_capture_traceback(heap[out'.self].value)
            /\ out'.res.t = heap'[out'.self].trace
       ELSE /\ out'.calls = <<>>
            /\ heap' = heap
            /\ out'.res.t = heap[out'.self].trace

\* C21: constructing an Err around an exception leaves the memo at the
\* sentinel and computes nothing; the first read of trace computes the
\* trace once and stores it; every later read, whatever was called on the
\* Err in between, returns the stored value (also when it is None) without
\* computing again; no read returns the sentinel; an Err around anything
\* else has no trace from construction on.
C21_LazyTraceMemo == []MemoStates /\ [][MemoSteps]_vars

C21_Witness ==
  /\ out.op = "trace"
  /\ IsBaseException(Receiver.value)
  /\ out.calls = <<>>
  /\ out.res.t = Err_capture_traceback(Receiver.value)
  /\ out.res.t # NoTrace

(***************************************************************************)
(* Immutability of Results (SpecLib)                                       *)
(***************************************************************************)
\* the Result just constructed is of the variant called and holds the value given
BuiltAsGiven ==
  out.op \in {"Ok", "Err"} =>
    /\ heap[out.res.ref].tag = out.op
    /\ heap[out.res.ref].value = out.arg

\* a step leaves every existing Result as it was, but for an Err's trace memo
OnlyMemoChanges ==
  \A r \in Refs(heap) :
    /\ r \in Refs(heap')
    /\ heap'[r].tag = heap[r].tag
    /\ heap'[r].value = heap[r].value
    /\ heap[r].tag = "Ok" => heap'[r] = heap[r]
    /\ heap[r].tag = "Err" => [heap'[r] EXCEPT !.trace = heap[r].trace] = heap[r]

\* C22: whatever is called on a Result (combinators, the unwrap family
\* succeeding or failing, match, inspect, trace reads, do and do_async
\* producing or returning it), its variant and its held value stay those it
\* was constructed with; only the trace memo of an Err ever changes.
C22_Immutability == []BuiltAsGiven /\ [][OnlyMemoChanges]_vars

C22_Witness ==
  /\ out.op = "trace"
  /\ out.calls = Captured(Receiver.value)
  /\ Receiver.tag = "Err"
  /\ Receiver.trace # Ellipsis

(***************************************************************************)
(* The branches of the combinators that do nothing (SpecLib)               *)
(***************************************************************************)
NoOpOnOk == {"map_err", "alt", "or_else", "inspect_err"}
NoOpOnErr == {"map", "and_then", "inspect", "map_async", "and_then_async"}

\* the last call was a combinator on the variant it does not apply to
NoOpBranch ==
  \/ out.op \in NoOpOnOk /\ Receiver.tag = "Ok"
  \/ out.op \in NoOpOnErr /\ Receiver.tag = "Err"

\* the last call was unwrap_or_else on an Ok
DefaultUnused == out.op = "unwrap_or_else" /\ Receiver.tag = "Ok"

ReturnedSelfUntouched ==
  /\ NoOpBranch =>
       /\ out.kind = "return"
       /\ out.res = ResRet(out.self)
       /\ out.calls = <<>>
  /\ DefaultUnused =>
       /\ out.kind = "return"
       /\ out.res = ValRet(Receiver.value)
       /\ out.calls = <<>>

\* C23: map_err, alt, or_else and inspect_err on an Ok, and map, and_then,
\* inspect, map_async and and_then_async on an Err, return the receiver
\* itself, leave it and every other Result unchanged and never invoke the
\* operation given; unwrap_or_else on Ok(v) returns v without invoking f.
C23_NoOpBranches ==
  /\ []ReturnedSelfUntouched
  /\ [][(NoOpBranch' \/ DefaultUnused') => heap' = heap]_vars

C23_Witness ==
  /\ out.op = "and_then_async"
  /\ Receiver.tag = "Err"
  /\ out.arg = "raiser"
  /\ out.kind = "return"
  /\ out.res = ResRet(out.self)

(***************************************************************************)
(* inspect and inspect_err (SpecComb)                                      *)
(***************************************************************************)
\* the last call was inspect on an Ok or inspect_err on an Err
InspectApplied ==
  \/ out.op = "inspect" /\ Receiver.tag = "Ok"
  \/ out.op = "inspect_err" /\ Receiver.tag = "Err"

InspectedOnce ==
  InspectApplied =>
    /\ out.calls = <<Call(out.arg, Receiver.value)>>
    /\ Apply(out.arg, Receiver.value).kind = "return" =>
         /\ out.kind = "return"
         /\ out.res = ResRet(out.self)

\* C24: Ok(v).inspect(f) invokes f once with v and Err(e).inspect_err(f)
\* invokes f once with e; whatever f returns, the call returns the receiver
\* itself, whose variant and value (and every other Result) are unchanged.
C24_InspectSideEffectOnly ==
  /\ []InspectedOnce
  /\ [][InspectApplied' => heap' = heap]_vars

C24_Witness ==
  /\ out.op = "inspect_err"
  /\ Receiver.tag = "Err"
  /\ out.arg = "const"
  /\ out.calls = <<Call("const", Receiver.value)>>
  /\ out.res = ResRet(out.self)

(***************************************************************************)
(* Threads racing to read a trace (SpecRace)                               *)
(***************************************************************************)
\* the trace of the Err thread t reads, as _capture_traceback gives it
TraceOf(t) == Err_capture_traceback(heap[readers[t].self].value)

\* thread t reads an Err that holds an exception
ReadsException(t) ==
  readers[t].pc # "idle" /\ IsBaseException(heap[readers[t].self].value)

RacingReads ==
  \A t \in Threads :
    ReadsException(t) =>
      /\ readers[t].pc = "done" => readers[t].ret = TraceOf(t)
      /\ readers[t].pc \in {"return", "done"} => heap[readers[t].self].trace = TraceOf(t)
      /\ heap[readers[t].self].trace \in {Ellipsis, TraceOf(t)}

\* a store into a memo that is computed writes the content it holds
SameContentStored ==
  \A r \in Refs(heap) :
    (heap[r].tag = "Err" /\ heap[r].trace # Ellipsis) => heap'[r].trace = heap[r].trace

\* C25: when threads read the trace of one Err around an exception with
\* their test, computation and store interleaved in any order, every read
\* returns the same trace content, never the sentinel and never a partly
\* written value; once a read is past its store the memo holds that
\* content, and a later store writes the same content again.
C25_RacingReadsSafe == []RacingReads /\ [][SameContentStored]_vars

C25_Witness ==
  /\ \A t \in Threads :
       /\ readers[t].pc = "done"
       /\ readers[t].self = 1
       /\ readers[t].local # Unset
       /\ readers[t].local # NoTrace
       /\ readers[t].ret = readers[t].local
  /\ heap[1].trace = readers[1].ret

====
